---- MODULE Spec2Model ----
(***************************************************************************)
(* Model of the MCP JSON-RPC gateway of src/main.py: the POST /mcp         *)
(* handler (mcp), the method dispatcher (handle_rpc), the token extractor  *)
(* (get_token), request-shape validation (JsonRpcRequest) and the response *)
(* builders (ok, err).                                                     *)
(*                                                                         *)
(* JSON values are tagged records, so that values of different JSON types  *)
(* can be compared: Python's None and JSON null are both JNull.  A Python  *)
(* exception is the record Raise(e); an exception that leaves mcp is the   *)
(* transport's HTTP 500.                                                   *)
(*                                                                         *)
(* Request-shape validation follows pydantic 2: a str field accepts only   *)
(* strings, Union[str, int, None] accepts strings, integers and null.      *)
(* Booleans and integral floats as id are outside the inputs of the model. *)
(***************************************************************************)
EXTENDS Integers, Sequences, FiniteSets, TLC

VARIABLES AUTH_TOKEN, MY_NUMBER, pc, route, auth_header, body, status, response

vars == <<AUTH_TOKEN, MY_NUMBER, pc, route, auth_header, body, status, response>>

(***************************************************************************)
(* JSON values                                                             *)
(***************************************************************************)
JNull == [t |-> "null"]
JBool(b) == [t |-> "bool", b |-> b]
JInt(i) == [t |-> "int", i |-> i]
JFloat(f) == [t |-> "float", f |-> f]
JStr(s) == [t |-> "str", s |-> s]
JList(l) == [t |-> "list", l |-> l]
JObj(o) == [t |-> "obj", o |-> o]

\* A request body that is not JSON text: request.json() raises on it.
NotJson == [t |-> "notjson"]

\* The empty mapping {}.
EmptyMap == [k \in {} |-> JNull]

(***************************************************************************)
(* Python semantics used by the handlers                                   *)
(***************************************************************************)
Raise(e) == [raise |-> e]
IsRaise(x) == "raise" \in DOMAIN x

\* bool(v): None, False, 0, 0.0, "", [] and {} are falsy.
Truthy(v) ==
    CASE v.t = "null" -> FALSE
      [] v.t = "bool" -> v.b
      [] v.t = "int" -> v.i # 0
      [] v.t = "float" -> v.f # "0.0"
      [] v.t = "str" -> v.s # ""
      [] v.t = "list" -> v.l # <<>>
      [] v.t = "obj" -> DOMAIN v.o # {}

\* s.startswith(p)
startswith(s, p) == Len(s) >= Len(p) /\ SubSeq(s, 1, Len(p)) = p

\* sub in s, for strings
str_contains(s, sub) ==
    \E i \in 1..(Len(s) - Len(sub) + 1) : SubSeq(s, i, i + Len(sub) - 1) = sub

\* s.split(sep, 1) for a one-character sep: at most one split, at the first sep.
split_once(s, sep) ==
    IF \E i \in 1..Len(s) : SubSeq(s, i, i) = sep
    THEN LET k == CHOOSE i \in 1..Len(s) :
                      /\ SubSeq(s, i, i) = sep
                      /\ \A j \in 1..(i - 1) : SubSeq(s, j, j) # sep
         IN <<SubSeq(s, 1, k - 1), SubSeq(s, k + 1, Len(s))>>
    ELSE <<s>>

\* d.get(k, default) on a mapping
dict_get(o, k, default) == IF k \in DOMAIN o THEN o[k] ELSE default

\* str(v) as an f-string renders it
py_str(v) ==
    CASE v.t = "str" -> v.s
      [] v.t = "null" -> "None"
      [] v.t = "int" -> ToString(v.i)
      [] v.t = "bool" -> IF v.b THEN "True" ELSE "False"
      [] v.t = "float" -> v.f


(***************************************************************************)
(* Response builders                                                       *)
(***************************************************************************)
ok(_id, result) == [jsonrpc |-> "2.0", id |-> _id, result |-> result]

\* A builder that loses the identifier.
err_drops_id(_id, code, message) ==
    [jsonrpc |-> "2.0", id |-> JNull, error |-> [code |-> code, message |-> message]]

err(_id, code, message) ==
    [jsonrpc |-> "2.0", id |-> _id, error |-> [code |-> code, message |-> message]]

(***************************************************************************)
(* Request-shape validation: the JsonRpcRequest constructor               *)
(***************************************************************************)
\* ** on a value that is no mapping raises TypeError before pydantic runs;
\* pydantic raises ValidationError on a missing or ill-typed field and
\* ignores fields it does not declare.
JsonRpcRequest(item) ==
    IF item.t # "obj" THEN Raise("TypeError")
    ELSE LET d == item.o IN
         IF /\ "jsonrpc" \in DOMAIN d
            /\ d["jsonrpc"].t = "str"
            /\ ("id" \in DOMAIN d => d["id"].t \in {"str", "int", "null"})
            /\ "method" \in DOMAIN d
            /\ d["method"].t = "str"
            /\ ("params" \in DOMAIN d => d["params"].t \in {"obj", "null"})
         THEN [jsonrpc |-> d["jsonrpc"],
               id |-> dict_get(d, "id", JNull),
               method |-> d["method"],
               params |-> dict_get(d, "params", JNull)]
         ELSE Raise("ValidationError")

(***************************************************************************)
(* Token extraction                                                        *)
(***************************************************************************)
\* "token" in x : key test on a mapping, substring test on a string, element
\* test on a list; any other (truthy) value is not iterable.
supports_in(x) == x.t \in {"obj", "str", "list"}

token_in(x) ==
    CASE x.t = "obj" -> "token" \in DOMAIN x.o
      [] x.t = "str" -> str_contains(x.s, "token")
      [] x.t = "list" -> \E i \in 1..Len(x.l) : x.l[i] = JStr("token")

\* Body first: arguments.token wins over the header.
get_token_body_first(authorization, params_or_args) ==
    IF params_or_args.t = "obj" /\ "token" \in DOMAIN params_or_args.o
    THEN params_or_args.o["token"]
    ELSE IF Truthy(authorization) /\ startswith(authorization.s, "Bearer ")
         THEN JStr(split_once(authorization.s, " ")[2])
         ELSE JNull

\* An empty bearer token falls through to the body.
get_token_fallback(authorization, params_or_args) ==
    IF /\ Truthy(authorization)
       /\ startswith(authorization.s, "Bearer ")
       /\ split_once(authorization.s, " ")[2] # ""
    THEN JStr(split_once(authorization.s, " ")[2])
    ELSE IF Truthy(params_or_args)
         THEN IF ~ supports_in(params_or_args) THEN Raise("TypeError")
              ELSE IF token_in(params_or_args)
                   THEN IF params_or_args.t = "obj"
                        THEN params_or_args.o["token"]
                        ELSE Raise("AttributeError")
                   ELSE JNull
         ELSE JNull

get_token(authorization, params_or_args) ==
    IF Truthy(authorization) /\ startswith(authorization.s, "Bearer ")
    THEN JStr(split_once(authorization.s, " ")[2])
    ELSE IF Truthy(params_or_args)
         THEN IF ~ supports_in(params_or_args) THEN Raise("TypeError")
              ELSE IF token_in(params_or_args)
                   THEN IF params_or_args.t = "obj"
                        THEN params_or_args.o["token"]
                        ELSE Raise("AttributeError")
                   ELSE JNull
         ELSE JNull

(***************************************************************************)
(* The validate tool: the decision sequence of tools/call validate         *)
(***************************************************************************)
tool_error(code, message) == [error |-> [code |-> code, message |-> message]]

text_content(text) == [content |-> <<[type |-> "text", text |-> text]>>]

\* The configuration check comes before the missing-token check.
validate_config_first(_id, incoming_token, auth_token, my_number) ==
    IF auth_token = JNull
    THEN ok(_id, tool_error(-32003, "Server misconfigured: AUTH_TOKEN missing"))
    ELSE IF ~ Truthy(incoming_token)
    THEN ok(_id, tool_error(-32001, "Missing token"))
    ELSE IF incoming_token # auth_token
    THEN ok(_id, tool_error(-32002, "Invalid token"))
    ELSE IF ~ Truthy(my_number)
    THEN ok(_id, tool_error(-32000, "Server missing MY_NUMBER"))
    ELSE ok(_id, text_content(my_number.s))

\* The output value is looked at before the token is compared.
validate_number_first(_id, incoming_token, auth_token, my_number) ==
    IF ~ Truthy(incoming_token)
    THEN ok(_id, tool_error(-32001, "Missing token"))
    ELSE IF auth_token = JNull
    THEN ok(_id, tool_error(-32003, "Server misconfigured: AUTH_TOKEN missing"))
    ELSE IF ~ Truthy(my_number)
    THEN ok(_id, tool_error(-32000, "Server missing MY_NUMBER"))
    ELSE IF incoming_token # auth_token
    THEN ok(_id, tool_error(-32002, "Invalid token"))
    ELSE ok(_id, text_content(my_number.s))

validate(_id, incoming_token, auth_token, my_number) ==
    IF ~ Truthy(incoming_token)
    THEN ok(_id, tool_error(-32001, "Missing token"))
    ELSE IF auth_token = JNull
    THEN ok(_id, tool_error(-32003, "Server misconfigured: AUTH_TOKEN missing"))
    ELSE IF incoming_token # auth_token
    THEN ok(_id, tool_error(-32002, "Invalid token"))
    ELSE IF ~ Truthy(my_number)
    THEN ok(_id, tool_error(-32000, "Server missing MY_NUMBER"))
    ELSE ok(_id, text_content(my_number.s))

(***************************************************************************)
(* Fixed payloads                                                          *)
(***************************************************************************)
initialize_result ==
    [serverInfo |-> [name |-> "mcp-jd-kit", version |-> "0.1.0"],
     protocolVersion |-> "2024-06-01",
     capabilities |-> [tools |-> [listChanged |-> FALSE]]]

\* The catalogue of method "tools/list".
tools_list_result ==
    [tools |-> <<
        [name |-> "validate",
         description |-> "Return owner phone as a string. Token via Authorization header or arguments.token.",
         inputSchema |-> [type |-> "object",
                          properties |-> [token |-> [type |-> "string",
                                                     description |-> "Bearer token"]]]],
        [name |-> "ping",
         description |-> "Liveness check.",
         inputSchema |-> [type |-> "object", properties |-> EmptyMap]] >>]

\* The catalogue of method "tools.list".
tools_dot_list_result ==
    [tools |-> <<
        [name |-> "validate",
         description |-> "Return owner phone as string.",
         inputSchema |-> [type |-> "object",
                          properties |-> [token |-> [type |-> "string"]]]],
        [name |-> "ping",
         description |-> "Liveness check.",
         inputSchema |-> [type |-> "object", properties |-> EmptyMap]] >>]

(***************************************************************************)
(* Method dispatch                                                         *)
(***************************************************************************)
\* str.lower, used by the case-folding variant of the comparison below.
UpperLetters == "ABCDEFGHIJKLMNOPQRSTUVWXYZ"
LowerLetters == "abcdefghijklmnopqrstuvwxyz"

lower_char(c) ==
    IF \E i \in 1..Len(UpperLetters) : SubSeq(UpperLetters, i, i) = c
    THEN LET k == CHOOSE i \in 1..Len(UpperLetters) : SubSeq(UpperLetters, i, i) = c
         IN SubSeq(LowerLetters, k, k)
    ELSE c

RECURSIVE lower(_)
lower(s) == IF s = "" THEN "" ELSE lower_char(SubSeq(s, 1, 1)) \o lower(SubSeq(s, 2, Len(s)))

\* A comparison that ignores case.
method_is_nocase(method, name) == lower(method.s) = name

\* method == "<name>" : string equality
method_is(method, name) == method.s = name

handle_rpc(rpc, authorization, auth_token, my_number) ==
    LET method == rpc.method
        params == IF Truthy(rpc.params) THEN rpc.params ELSE JObj(EmptyMap)
    IN
    IF method_is(method, "initialize") THEN ok(rpc.id, initialize_result)
    ELSE IF method_is(method, "tools/list") THEN ok(rpc.id, tools_list_result)
    ELSE IF method_is(method, "tools/call")
    THEN LET name == dict_get(params.o, "name", JNull)
             arguments == dict_get(params.o, "arguments", JObj(EmptyMap))
         IN IF name = JStr("validate")
            THEN LET incoming_token == get_token(authorization, arguments)
                 IN IF IsRaise(incoming_token) THEN incoming_token
                    ELSE validate(rpc.id, incoming_token, auth_token, my_number)
            ELSE IF name = JStr("ping") THEN ok(rpc.id, text_content("pong"))
            ELSE err(rpc.id, -32601, "Unknown tool: " \o py_str(name))
    ELSE IF method_is(method, "ping") THEN ok(rpc.id, [pong |-> TRUE])
    ELSE IF method_is(method, "tools.list") THEN ok(rpc.id, tools_dot_list_result)
    ELSE err(rpc.id, -32601, "Method not found: " \o method.s)

(***************************************************************************)
(* Routes                                                                  *)
(***************************************************************************)
root_payload == [ok |-> TRUE, message |-> "MCP endpoint at /mcp"]

health_payload == [status |-> "ok"]

\* The for loop over a batch: the results so far, or the exception that left it.
\* Only ValidationError is caught per item.
RECURSIVE batch_loop(_, _, _, _, _)
batch_loop(items, results, authorization, auth_token, my_number) ==
    IF items = <<>> THEN JList(results)
    ELSE LET item == Head(items)
             rpc == JsonRpcRequest(item)
         IN IF IsRaise(rpc)
            THEN IF rpc.raise = "ValidationError"
                 THEN batch_loop(Tail(items),
                                 Append(results, err(dict_get(item.o, "id", JNull),
                                                     -32600, "Invalid Request")),
                                 authorization, auth_token, my_number)
                 ELSE rpc
            ELSE LET r == handle_rpc(rpc, authorization, auth_token, my_number)
                 IN IF IsRaise(r) THEN r
                    ELSE batch_loop(Tail(items), Append(results, r),
                                    authorization, auth_token, my_number)

\* POST /mcp: the HTTP status and the JSON content sent.  Reading the body and
\* decoding it with errors="replace" does not raise; request.json() raises on
\* text that is no JSON (-32700).  An exception other than ValidationError
\* leaves the handler: the transport answers 500.
mcp(request_body, authorization, auth_token, my_number) ==
    IF request_body = NotJson
    THEN [status |-> 200, content |-> err(JNull, -32700, "Parse error")]
    ELSE LET out == IF request_body.t = "list"
                    THEN batch_loop(request_body.l, <<>>, authorization, auth_token, my_number)
                    ELSE LET rpc == JsonRpcRequest(request_body)
                         IN IF IsRaise(rpc) THEN rpc
                            ELSE handle_rpc(rpc, authorization, auth_token, my_number)
         IN IF IsRaise(out)
            THEN IF out.raise = "ValidationError"
                 THEN [status |-> 200, content |-> err(JNull, -32600, "Invalid Request")]
                 ELSE [status |-> 500, content |-> out]
            ELSE [status |-> 200, content |-> out]

(***************************************************************************)
(* Inputs: the configurations, headers and bodies the model draws from     *)
(***************************************************************************)
\* The longest batch sent.
MaxBatch == 2

\* Marks a field left out of an object under construction.
Absent == [t |-> "absent"]

\* The JSON object with the given fields, those marked Absent left out.
Object(fields) ==
    JObj([k \in {f \in DOMAIN fields : fields[f] # Absent} |-> fields[k]])

Request(jsonrpc, id, method, params) ==
    Object([jsonrpc |-> jsonrpc, id |-> id, method |-> method, params |-> params])

\* os.getenv gives None for an unset variable, a string (possibly empty) otherwise.
AuthTokens == {JNull, JStr(""), JStr("s3")}

Numbers == {JNull, JStr(""), JStr("+15555550123"), JStr("+15555550199")}

Headers ==
    {JNull, JStr(""), JStr("Bearer"), JStr("Bearer "), JStr("Bearer s3"),
     JStr("Bearer bad"), JStr("bearer s3"), JStr("Basic s3"), JStr("Bearer  s3"),
     JStr("Bearer s3 x")}

BatchHeaders == {JNull, JStr("Bearer s3"), JStr("Bearer ")}

Ids ==
    {Absent, JNull, JInt(0), JInt(7), JStr("a"), JStr(""),
     JFloat("1.5"), JList(<<>>), JList(<<JInt(7)>>), JObj(EmptyMap)}

Jsonrpcs == {JStr("2.0"), JStr("1.0"), Absent, JNull}

KnownMethods == {"initialize", "tools/list", "tools/call", "ping", "tools.list"}

Methods ==
    {JStr(m) : m \in KnownMethods}
    \cup {JStr("Ping"), JStr("Tools/List"), JStr("TOOLS/CALL"), JStr("tools/call "),
          JStr("Initialize"), JStr("tools_list"), JStr(""), Absent, JNull, JInt(1)}

TokenValues == {JNull, JStr(""), JStr("s3"), JStr("bad"), JStr(" s3"), JInt(0), JInt(7)}

ArgumentsValues ==
    {Absent, JNull, JObj(EmptyMap), JObj([other |-> JStr("s3")]),
     JInt(0), JInt(5), JBool(TRUE), JBool(FALSE), JFloat("1.5"),
     JStr(""), JStr("abc"), JStr("my token"),
     JList(<<>>), JList(<<JStr("token")>>), JList(<<JStr("x")>>)}
    \cup {JObj([token |-> v]) : v \in TokenValues}

ToolNames ==
    {Absent, JNull, JInt(3), JStr("validate"), JStr("ping"), JStr("Validate"), JStr("nope")}

ToolCallParams ==
    {Object([name |-> JStr("validate"), arguments |-> a]) : a \in ArgumentsValues}
    \cup {Object([name |-> n, arguments |-> a]) :
             n \in ToolNames, a \in {Absent, JObj([token |-> JStr("s3")]), JInt(5)}}

OtherParams == {Absent, JNull, JObj(EmptyMap), JInt(1), JStr("p")}

\* Bodies that are one JSON value.
SingleBodies ==
    {NotJson, JNull, JInt(5), JStr("x"), JBool(TRUE), JFloat("1.5"), JObj(EmptyMap)}
    \cup {Request(j, i, m, Absent) : j \in Jsonrpcs, i \in Ids, m \in Methods}
    \cup {Request(JStr("2.0"), JInt(7), m, p) :
             m \in {JStr("tools/call"), JStr("ping"), JStr("foo")}, p \in OtherParams}
    \cup {Request(JStr("2.0"), i, JStr("tools/call"), p) :
             i \in {JInt(7), JStr("a"), Absent}, p \in ToolCallParams}

\* The elements batches are made of: valid requests, objects that fail shape
\* validation (with and without a usable id) and values that are no object.
BatchItems ==
    {Request(JStr("2.0"), JInt(7), JStr("ping"), Absent),
     Request(JStr("2.0"), JStr("a"), JStr("tools/call"),
             Object([name |-> JStr("validate"), arguments |-> JObj([token |-> JStr("s3")])])),
     Request(JStr("2.0"), JInt(0), JStr("tools/call"),
             Object([name |-> JStr("validate"), arguments |-> JObj([token |-> JStr("bad")])])),
     Request(JStr("2.0"), Absent, JStr("nope"), Absent),
     Request(JStr("2.0"), JInt(7), Absent, Absent),
     Request(JStr("2.0"), Absent, Absent, Absent),
     Request(JStr("2.0"), JList(<<JInt(7)>>), Absent, Absent),
     Request(JStr("2.0"), JObj(EmptyMap), JStr("ping"), Absent),
     JInt(5),
     JNull}

Batches == UNION {[1..n -> BatchItems] : n \in 0..MaxBatch}

McpRequests ==
    {[body |-> b, authorization |-> h] : b \in SingleBodies, h \in Headers}
    \cup {[body |-> JList(b), authorization |-> h] : b \in Batches, h \in BatchHeaders}

(***************************************************************************)
(* The server: configuration read once at start, then one request at a time *)
(***************************************************************************)
Init ==
    /\ AUTH_TOKEN \in AuthTokens
    /\ MY_NUMBER \in Numbers
    /\ pc = "idle"
    /\ route = "none"
    /\ auth_header = JNull
    /\ body = JNull
    /\ status = 0
    /\ response = JNull

\* POST /mcp with a body and an optional Authorization header.
post_mcp ==
    /\ pc = "idle"
    /\ \E req \in McpRequests :
          LET r == mcp(req.body, req.authorization, AUTH_TOKEN, MY_NUMBER)
          IN /\ body' = req.body
             /\ auth_header' = req.authorization
             /\ status' = r.status
             /\ response' = r.content
    /\ route' = "/mcp"
    /\ pc' = "responded"
    /\ UNCHANGED <<AUTH_TOKEN, MY_NUMBER>>

\* GET /
root ==
    /\ pc = "idle"
    /\ route' = "/"
    /\ status' = 200
    /\ response' = root_payload
    /\ pc' = "responded"
    /\ UNCHANGED <<AUTH_TOKEN, MY_NUMBER, auth_header, body>>

\* GET /health
health ==
    /\ pc = "idle"
    /\ route' = "/health"
    /\ status' = 200
    /\ response' = health_payload
    /\ pc' = "responded"
    /\ UNCHANGED <<AUTH_TOKEN, MY_NUMBER, auth_header, body>>

\* The response is sent; the server keeps nothing of the request.
next_request ==
    /\ pc = "responded"
    /\ pc' = "idle"
    /\ route' = "none"
    /\ auth_header' = JNull
    /\ body' = JNull
    /\ status' = 0
    /\ response' = JNull
    /\ UNCHANGED <<AUTH_TOKEN, MY_NUMBER>>

Next == post_mcp \/ root \/ health \/ next_request

Spec == Init /\ [][Next]_vars

(***************************************************************************)
(* Vocabulary of the properties                                            *)
(***************************************************************************)
\* A POST /mcp has been answered.
Responded == pc = "responded" /\ route = "/mcp"

IsBatch == body.t = "list"

\* e passes request-shape validation.
ValidRequest(e) == e.t = "obj" /\ ~ IsRaise(JsonRpcRequest(e))

\* The id field of a raw element, null when there is none.
RequestId(e) == IF e.t = "obj" THEN dict_get(e.o, "id", JNull) ELSE JNull

ParamsOf(e) ==
    LET p == dict_get(e.o, "params", JNull) IN IF p.t = "obj" THEN p.o ELSE EmptyMap

ArgumentsOf(e) == dict_get(ParamsOf(e), "arguments", JObj(EmptyMap))

IsValidateCall(e) ==
    /\ ValidRequest(e)
    /\ e.o["method"] = JStr("tools/call")
    /\ dict_get(ParamsOf(e), "name", JNull) = JStr("validate")

HasBearer(h) == h.t = "str" /\ Len(h.s) >= 7 /\ SubSeq(h.s, 1, 7) = "Bearer "

\* First match wins: the header after "Bearer ", else arguments.token, else absent.
ExpectedToken(h, args) ==
    IF HasBearer(h) THEN JStr(SubSeq(h.s, 8, Len(h.s)))
    ELSE IF args.t = "obj" /\ "token" \in DOMAIN args.o THEN args.o["token"]
    ELSE JNull

\* A response object with exactly one of the keys result and error.
ExactlyOneOfResultError(r) == ("result" \in DOMAIN r) # ("error" \in DOMAIN r)

IsError(r, code) ==
    /\ "error" \in DOMAIN r
    /\ "result" \notin DOMAIN r
    /\ r.error.code = code

\* A JSON-RPC success whose payload is an inner error with this code.
IsInnerError(r, code) ==
    /\ "result" \in DOMAIN r
    /\ "error" \notin DOMAIN r
    /\ DOMAIN r.result = {"error"}
    /\ r.result.error.code = code

\* A JSON-RPC success whose payload is the one text item.
IsText(r, text) ==
    /\ "result" \in DOMAIN r
    /\ "error" \notin DOMAIN r
    /\ r.result = [content |-> <<[type |-> "text", text |-> text]>>]

(***************************************************************************)
(* C1, C2, C6: batches and termination                                     *)
(***************************************************************************)
\* C1: a body that is an array of N JSON values, valid requests or not, is
\* answered by an array of N responses, the response at position i carrying
\* the identifier of element i.
C1_BatchOneToOne ==
    (Responded /\ IsBatch) =>
        /\ status = 200
        /\ response.t = "list"
        /\ Len(response.l) = Len(body.l)
        /\ \A i \in 1..Len(body.l) : response.l[i].id = RequestId(body.l[i])

WellFormedResponse(r) ==
    /\ "jsonrpc" \in DOMAIN r
    /\ r.jsonrpc = "2.0"
    /\ "id" \in DOMAIN r
    /\ ExactlyOneOfResultError(r)

\* C2: every body, decodable or not, single or array, with params and
\* params.arguments of any JSON type, is answered with HTTP status 200 and a
\* well-formed JSON-RPC response or an array of them; no exception leaves the
\* handler.
C2_AlwaysAnswers200 ==
    Responded =>
        /\ status = 200
        /\ IF IsBatch
           THEN \A i \in 1..Len(response.l) : WellFormedResponse(response.l[i])
           ELSE WellFormedResponse(response)

\* The identifier of an element when it is a string, an integer or null; null
\* when the element has none or a malformed one.
WellFormedIdOrNull(e) ==
    IF RequestId(e).t \in {"str", "int", "null"} THEN RequestId(e) ELSE JNull

\* What the element would be answered when sent alone.
AnswerAlone(e) == mcp(e, auth_header, AUTH_TOKEN, MY_NUMBER).content

\* C6: in a batch, an element that fails request-shape validation is answered
\* at its position by error -32600 with the element's id when that is well
\* formed and null otherwise, and every valid sibling is answered as it would
\* be alone.
C6_BatchBadItemIsolated ==
    (Responded /\ IsBatch) =>
        /\ status = 200
        /\ \A i \in 1..Len(body.l) :
              IF ValidRequest(body.l[i])
              THEN response.l[i] = AnswerAlone(body.l[i])
              ELSE response.l[i] =
                      err(WellFormedIdOrNull(body.l[i]), -32600, "Invalid Request")

(***************************************************************************)
(* C3, C4, C10: the validate tool                                          *)
(***************************************************************************)
\* The decision as the checks are worded: absent and unset mean None.
LiteralDecision(_id, token) ==
    IF token = JNull THEN ok(_id, tool_error(-32001, "Missing token"))
    ELSE IF AUTH_TOKEN = JNull
    THEN ok(_id, tool_error(-32003, "Server misconfigured: AUTH_TOKEN missing"))
    ELSE IF token # AUTH_TOKEN THEN ok(_id, tool_error(-32002, "Invalid token"))
    ELSE IF MY_NUMBER = JNull THEN ok(_id, tool_error(-32000, "Server missing MY_NUMBER"))
    ELSE ok(_id, text_content(MY_NUMBER.s))

DecisionCode(token) ==
    IF ~ Truthy(token) THEN -32001
    ELSE IF AUTH_TOKEN = JNull THEN -32003
    ELSE IF token # AUTH_TOKEN THEN -32002
    ELSE IF MY_NUMBER = JNull \/ MY_NUMBER = JStr("") THEN -32000
    ELSE 0

C10_EmptyTokenIsMissing ==
    (Responded /\ ~ IsBatch /\ IsValidateCall(body)) =>
        LET args == ArgumentsOf(body)
        IN (\/ auth_header = JStr("Bearer ")
            \/ /\ ~ HasBearer(auth_header)
               /\ args.t = "obj"
               /\ "token" \in DOMAIN args.o
               /\ args.o["token"] = JStr(""))
           => /\ status = 200
              /\ response = ok(RequestId(body), tool_error(-32001, "Missing token"))

\* Header "Bearer " with the configured token in arguments.token.
C10_Witness ==
    /\ Responded /\ ~ IsBatch /\ IsValidateCall(body)
    /\ auth_header = JStr("Bearer ")
    /\ AUTH_TOKEN = JStr("s3")
    /\ ArgumentsOf(body) = JObj([token |-> JStr("s3")])
    /\ IsInnerError(response, -32001)

(***************************************************************************)
(* C5, C7, C8: dispatch and response shape                                 *)
(***************************************************************************)
\* C5: a request with method "tools.list" is answered with the catalogue of
\* method "tools/list".
C5_AliasSameCatalogue ==
    (Responded /\ ~ IsBatch /\ ValidRequest(body) /\ body.o["method"] = JStr("tools.list")) =>
        /\ status = 200
        /\ response = ok(RequestId(body), tools_list_result)

C8_UnknownMethod ==
    (Responded /\ ~ IsBatch /\ ValidRequest(body)
        /\ body.o["method"].s \notin KnownMethods) =>
        /\ status = 200
        /\ IsError(response, -32601)
        /\ str_contains(response.error.message, body.o["method"].s)
        /\ response.id = RequestId(body)

\* A case variant of a routed name.
C8_Witness ==
    /\ Responded /\ ~ IsBatch /\ ValidRequest(body)
    /\ body.o["method"] = JStr("Ping")
    /\ RequestId(body) = JInt(7)
    /\ IsError(response, -32601)
    /\ response.error.message = "Method not found: Ping"

(***************************************************************************)
(* C9: confidentiality of MY_NUMBER                                        *)
(***************************************************************************)
\* The element is a validate call whose token is a non-empty string equal to
\* the configured AUTH_TOKEN.
Authorized(e) ==
    /\ IsValidateCall(e)
    /\ LET token == ExpectedToken(auth_header, ArgumentsOf(e))
       IN token.t = "str" /\ token.s # "" /\ token = AUTH_TOKEN

\* What is sent for the same request under another output value.
AnswerUnder(number) == mcp(body, auth_header, AUTH_TOKEN, number)

ShowsNumber(r) ==
    /\ MY_NUMBER.t = "str"
    /\ "result" \in DOMAIN r
    /\ "content" \in DOMAIN r.result
    /\ r.result.content[1].text = MY_NUMBER.s

\* C9: a response shows MY_NUMBER, or changes with MY_NUMBER, only when it
\* answers a validate call whose token is non-empty and equal to AUTH_TOKEN;
\* with AUTH_TOKEN unset or empty nothing sent depends on MY_NUMBER.
C9_Confidentiality ==
    Responded =>
        /\ \A n \in Numbers : AnswerUnder(n).status = status
        /\ status = 200 =>
              IF IsBatch
              THEN \A i \in 1..Len(response.l) :
                      (\/ ShowsNumber(response.l[i])
                       \/ \E n \in Numbers : AnswerUnder(n).content.l[i] # response.l[i])
                      => Authorized(body.l[i])
              ELSE (\/ ShowsNumber(response)
                    \/ \E n \in Numbers : AnswerUnder(n).content # response)
                   => (body # NotJson /\ Authorized(body))
        /\ (AUTH_TOKEN = JNull \/ AUTH_TOKEN = JStr("")) =>
              \A n \in Numbers : AnswerUnder(n).content = response

\* One batch: an authorized validate call obtains MY_NUMBER, its sibling with
\* a wrong token is answered Invalid token.
C9_Witness ==
    /\ Responded /\ status = 200 /\ IsBatch
    /\ Len(body.l) = 2
    /\ Authorized(body.l[1])
    /\ MY_NUMBER = JStr("+15555550123")
    /\ IsText(response.l[1], "+15555550123")
    /\ IsValidateCall(body.l[2])
    /\ IsInnerError(response.l[2], -32002)

====
